---- MODULE Spec2Model ----
(***************************************************************************)
(* parseusn.py: the $UsnJrnl:$J scan loop of main(), decode_USN_record,    *)
(* the flag decoding of deflag_item / deflag_long_field, and the index and *)
(* path building of parse_mft, as state machines.                          *)
(*                                                                         *)
(* Python integers are unbounded and TLC's are 32 bit, so every quantity   *)
(* that can reach 2^31 (file offsets, the unsigned record length, the flag *)
(* key 0x80000000) is a "wide" integer <<hi, lo>> standing for             *)
(* hi * 65536 + lo with lo in 0..65535.  hi is negative for a negative     *)
(* number (floor division), so a wide integer is its own two's complement  *)
(* limb pair.                                                              *)
(***************************************************************************)
EXTENDS Integers, Sequences, FiniteSets, TLC

VARIABLES
    \* main(): the scan loop
    src,              \* the bytes of "<infile>.tmp", as a sequence of segments
    position_marker,  \* wide
    go,               \* the loop flag
    pc,               \* "loop" | "done" (loop left) | "raised" (exception left main)
    last,             \* what the last iteration did: [kind, at, size]
    nrecords,         \* records decoded so far (saturates at MaxCount)
    nerrors,          \* "Cannot parse" reports so far (saturates at MaxCount)
    \* deflag_item
    flags,            \* "FLAGS_SHORT" | "FLAGS_LONG" (args.long_flags)
    r0,               \* the 4-byte images of the record's three bitmask fields
    r,                \* the record's fields: as unpacked, then as decoded
    fpc,              \* "raw" | "deflagged" | "idle"
    \* parse_mft, second loop, and the lookup of main()
    mft_to_name, mft_to_parent, mft_to_path,
    todo,             \* keys of mft_to_parent not yet iterated
    mftnum, num, path, first_parent,
    ppc,              \* "next" | "walk" | "idle"
    lookup,           \* result of the last mft_to_path lookup of main()
    \* parse_mft, first loop
    mftfile,          \* the 1024-byte records of the index file, in file order
    it,               \* records read so far
    data,             \* the record read last
    attrib_start, attrib_type,
    attr_name,        \* the local "name"
    attr_parent,      \* the local "parent"
    seen,             \* values attrib_start took in the walk of this record
    ipc               \* "read" | "walk" | "done" | "raised" | "hang" | "idle"

scanvars == <<src, position_marker, go, pc, last, nrecords, nerrors>>
flagvars == <<flags, r0, r, fpc>>
pathvars == <<mft_to_name, mft_to_parent, mft_to_path, todo, mftnum, num, path,
              first_parent, ppc, lookup>>
indexvars == <<mftfile, it, data, attrib_start, attrib_type, attr_name, attr_parent,
               seen, ipc>>
vars == <<scanvars, flagvars, pathvars, indexvars>>

----------------------------------------------------------------------------
(* Bounds of the model *)

\* number of segments a byte source is made of
MaxSegs == 3
\* number of huge records a byte source starts with
MaxBig == 3
\* the counters nrecords / nerrors saturate here
MaxCount == 3
\* index records carry the file numbers 5..MaxFileNum
MaxFileNum == 7
\* the parent walk of a cyclic index is cut at this path length
MaxPathLen == 40
\* number of 1024-byte records of an index file
MaxRecs == 3

----------------------------------------------------------------------------
(* Wide integers *)

WBase == 256 * 256

W(n) == <<n \div WBase, n % WBase>>

WAdd(a, b) == <<a[1] + b[1] + ((a[2] + b[2]) \div WBase), (a[2] + b[2]) % WBase>>

WSub(a, b) == <<a[1] - b[1] + ((a[2] - b[2]) \div WBase), (a[2] - b[2]) % WBase>>

WLess(a, b) == a[1] < b[1] \/ (a[1] = b[1] /\ a[2] < b[2])

WLeq(a, b) == a = b \/ WLess(a, b)

\* the value of a wide integer known to lie in 0..n, else n ("at least n")
WClamp(a, n) == IF WLess(a, W(n)) THEN (IF a[1] < 0 THEN 0 ELSE a[1] * WBase + a[2]) ELSE n

WMin(a, b) == IF WLess(a, b) THEN a ELSE b

\* x & y for 0 <= x, y < 2^bits
RECURSIVE BitAnd(_, _, _)
BitAnd(x, y, bits) ==
    IF bits = 0 THEN 0
    ELSE (IF x % 2 = 1 /\ y % 2 = 1 THEN 1 ELSE 0) + 2 * BitAnd(x \div 2, y \div 2, bits - 1)

\* x | y for 0 <= x, y < 2^bits
RECURSIVE BitOr(_, _, _)
BitOr(x, y, bits) ==
    IF bits = 0 THEN 0
    ELSE (IF x % 2 = 1 \/ y % 2 = 1 THEN 1 ELSE 0) + 2 * BitOr(x \div 2, y \div 2, bits - 1)

\* Python's k & v for a key 0 <= k < 2^32 and any v with |v| < 2^47: the limbs
\* of v above bit 31 meet zero limbs of k, so the result is the limbwise and of
\* the low 32 bits of v's two's complement.
WAnd(k, v) == <<BitAnd(k[1], v[1] % WBase, 16), BitAnd(k[2], v[2], 16)>>

WOr(a, b) == <<BitOr(a[1], b[1], 16), BitOr(a[2], b[2], 16)>>

WZero == <<0, 0>>

----------------------------------------------------------------------------
(* The byte source.  A source is a sequence of segments: a run of zero     *)
(* bytes, or a record image whose first 60 bytes are the version-2 header  *)
(* fields at their offsets in decode_USN_record and whose remaining bytes  *)
(* are the fill byte.  The scan loop sees the source only through ByteAt.  *)

Gap(n) ==
    [kind |-> "gap", len |-> W(n), declared |-> WZero, major |-> 0,
     fnlen |-> 0, fnoff |-> 0, timetop |-> 0]

\* declared, phys: wide; fnlen, fnoff: the unsigned 16 bit images
Rec(declared, phys, major, fnlen, fnoff, timetop) ==
    [kind |-> "rec", len |-> phys, declared |-> declared, major |-> major,
     fnlen |-> fnlen, fnoff |-> fnoff, timetop |-> timetop]

\* byte k (0..59) of a record image
HeaderByte(seg, k) ==
    CASE k = 0 -> seg.declared[2] % 256
      [] k = 1 -> seg.declared[2] \div 256
      [] k = 2 -> seg.declared[1] % 256
      [] k = 3 -> (seg.declared[1] \div 256) % 256
      [] k = 4 -> seg.major % 256              \* major
      [] k = 5 -> seg.major \div 256
      [] k = 8 -> 42                           \* mft_ref
      [] k = 14 -> 1                           \* mft_ref_seq
      [] k = 16 -> 5                           \* parent_ref
      [] k = 22 -> 5                           \* parent_ref_seq
      [] k = 25 -> 16                          \* usn
      [] k = 38 -> 213                         \* time, little endian
      [] k = 39 -> seg.timetop
      [] k = 41 -> 1                           \* reason 0x80000100
      [] k = 43 -> 128
      [] k = 52 -> 32                          \* file_attrib
      [] k = 56 -> seg.fnlen % 256
      [] k = 57 -> seg.fnlen \div 256
      [] k = 58 -> seg.fnoff % 256
      [] k = 59 -> seg.fnoff \div 256
      [] OTHER -> 0

\* the segment of s holding offset p (wide) and the offset within it;
\* i = Len(s) + 1 when p is at or past the end of the source
RECURSIVE Locate(_, _, _)
Locate(s, p, i) ==
    IF i > Len(s) THEN [i |-> i, off |-> p]
    ELSE IF WLess(p, s[i].len) THEN [i |-> i, off |-> p]
    ELSE Locate(s, WSub(p, s[i].len), i + 1)

RECURSIVE SrcLenFrom(_, _)
SrcLenFrom(s, i) == IF i > Len(s) THEN WZero ELSE WAdd(s[i].len, SrcLenFrom(s, i + 1))

SrcLen(s) == SrcLenFrom(s, 1)

\* the byte of s at offset p, for p inside the source
ByteAt(s, p) ==
    LET at == Locate(s, p, 1) IN
    IF at.i > Len(s) THEN 0
    ELSE IF s[at.i].kind = "gap" THEN 0
    ELSE IF WLess(at.off, W(60)) THEN HeaderByte(s[at.i], at.off[2])
    ELSE 65    \* the fill byte, "A"

\* number of zero bytes at the head of the n bytes of s from offset p on
\* (n <= what the source holds from p): len(data) - len(data.lstrip('\x00'))
RECURSIVE LeadingZeros(_, _, _)
LeadingZeros(s, p, n) ==
    IF n = 0 THEN 0
    ELSE LET at == Locate(s, p, 1) IN
         IF s[at.i].kind = "gap"
         THEN LET run == WClamp(WSub(s[at.i].len, at.off), n) IN
              run + LeadingZeros(s, WAdd(p, W(run)), n - run)
         ELSE IF ByteAt(s, p) = 0 THEN 1 + LeadingZeros(s, WAdd(p, W(1)), n - 1)
         ELSE 0

\* struct "H" / "h" / "I" at offset p, little endian
U16At(s, p) == ByteAt(s, p) + 256 * ByteAt(s, WAdd(p, W(1)))

S16At(s, p) == IF U16At(s, p) >= 32768 THEN U16At(s, p) - 65536 ELSE U16At(s, p)

U32At(s, p) == <<U16At(s, WAdd(p, W(2))), U16At(s, p)>>

\* len(d[start:stop]) for a string of n bytes
PySliceLen(n, start, stop) ==
    LET norm(i) == IF i < 0 THEN (IF i + n < 0 THEN 0 ELSE i + n)
                   ELSE IF i > n THEN n ELSE i
    IN IF norm(stop) > norm(start) THEN norm(stop) - norm(start) ELSE 0

----------------------------------------------------------------------------
(* The byte sources the scan is run on *)

\* a well-formed version-2 record of 60 bytes with an empty file name
R60 == Rec(W(60), W(60), 2, 0, 60, 1)
\* a well-formed version-2 record that fills a whole lookahead window
R808 == Rec(W(808), W(808), 2, 8, 60, 1)
\* a version-3 record
RV3 == Rec(W(80), W(80), 3, 4, 76, 1)
\* a record of a version the decoder does not know
RV4 == Rec(W(64), W(64), 4, 4, 60, 1)
\* a version-2 record whose file name runs past the record
RBadFn == Rec(W(64), W(64), 2, 100, 60, 1)
\* a version-2 record declared 96 bytes long of which 72 are there
RTrunc == Rec(W(96), W(72), 2, 8, 60, 1)
\* a version-2 record whose length field has bit 31 set (0x80000040)
RNeg == Rec(<<32768, 64>>, W(64), 2, 4, 60, 1)
\* a version-2 record whose time stamp lies past the year 9999
ROvf == Rec(W(64), W(64), 2, 4, 60, 128)
\* a well-formed version-2 record of 0x7ffffff8 bytes
Big == Rec(<<32767, 65528>>, <<32767, 65528>>, 2, 8, 60, 1)
\* 8 bytes that start with a non-zero length below 60
Tiny == Rec(W(8), W(8), 2, 0, 0, 0)

Segments == {Gap(4), Gap(16), Gap(40), Tiny, R60, R808, RV3, RV4, RBadFn,
             RTrunc, RNeg, ROvf}

\* a run of i huge records: what brings the scan to offsets near and past 2^32
Bigs(i) == [k \in 1..i |-> Big]

\* up to MaxBig huge records, then up to MaxSegs segments
Sources ==
    {Bigs(i) \o body : i \in 0..MaxBig,
                       body \in UNION {[1..n -> Segments] : n \in 0..MaxSegs}}
        \ {<<>>}

----------------------------------------------------------------------------
(* decode_USN_record and what main() does with its result *)

\* the 8 time bytes as decode_USN_record reverses them: most significant first
TimeBytes(s, p) == [k \in 1..8 |-> ByteAt(s, WAdd(p, W(40 - k)))]

\* 100 ns ticks from 1601-01-01 to datetime.max, most significant byte first
MaxTicks == <<36, 200, 90, 94, 209, 192, 63, 246>>

RECURSIVE SeqGreater(_, _, _)
SeqGreater(a, b, k) ==
    IF k > Len(a) THEN FALSE
    ELSE IF a[k] # b[k] THEN a[k] > b[k]
    ELSE SeqGreater(a, b, k + 1)

\* conv_time: datetime(1601, 1, 1) + timedelta(microseconds=ticks / 10.) raises
\* OverflowError past datetime.max (the float division blurs the limit by
\* some hundred ticks; the sources above stay far from it)
conv_time_raises(s, p) == SeqGreater(TimeBytes(s, p), MaxTicks, 1)

\* decode_USN_record(d, size) for the n bytes d read at offset p:
\* "record", "None", "struct.error" or "TypeError"
decode_USN_record(s, p, n) ==
    IF PySliceLen(n, 4, 6) # 2 \/ PySliceLen(n, 6, 8) # 2 THEN "struct.error"
    ELSE IF S16At(s, WAdd(p, W(4))) = 2 THEN
        IF PySliceLen(n, 58, 60) # 2 THEN "struct.error"   \* some fixed field is short
        ELSE LET length == S16At(s, WAdd(p, W(56)))
                 off == S16At(s, WAdd(p, W(58)))
             IN IF length < 0 \/ PySliceLen(n, off, off + length) # length
                THEN "struct.error"
                ELSE "record"
    ELSE IF S16At(s, WAdd(p, W(4))) = 3 THEN
        IF PySliceLen(n, 8, 24) # 16 THEN "struct.error"
        ELSE "TypeError"        \* unpacking the int struct.unpack("<QQ", ..)[0]
    ELSE "None"

read_length == 800

Avail(s, p) == IF WLess(p, SrcLen(s)) THEN WSub(SrcLen(s), p) ELSE WZero

\* len(it.read(read_length)) at position_marker
data_len == WClamp(Avail(src, position_marker), read_length)

recordsize == U32At(src, position_marker)

\* len(data.lstrip('\x00'))
gap_size == data_len - LeadingZeros(src, position_marker, data_len)

Running == pc = "loop" /\ go

Bump(c) == IF c < MaxCount THEN c + 1 ELSE c

\* position_marker & 0xfffffff8
Mask(p) == <<p[1] % WBase, p[2] - (p[2] % 8)>>

\* lines 187-275: it.seek(p); data = it.read(rs); decode, deflag, advance
Frame(p, rs) ==
    LET n == WClamp(WMin(rs, Avail(src, p)), WBase)
        out == decode_USN_record(src, p, n)
        here == [at |-> position_marker, size |-> rs]
    IN CASE out = "struct.error" ->
              /\ nerrors' = Bump(nerrors)
              /\ position_marker' = WAdd(p, rs)
              /\ last' = [kind |-> "struct_error"] @@ here
              /\ UNCHANGED <<go, pc, nrecords>>
         [] out = "None" ->
              /\ position_marker' = WAdd(p, rs)
              /\ last' = [kind |-> "unrecognized"] @@ here
              /\ UNCHANGED <<go, pc, nrecords, nerrors>>
         [] out = "record" /\ ~conv_time_raises(src, p) ->
              /\ nrecords' = Bump(nrecords)
              /\ position_marker' = WAdd(p, rs)
              /\ last' = [kind |-> "record"] @@ here
              /\ UNCHANGED <<go, pc, nerrors>>
         [] OTHER ->        \* TypeError or OverflowError: the bare except re-raises
              /\ go' = FALSE
              /\ pc' = "raised"
              /\ position_marker' = p
              /\ last' = [kind |-> "fatal"] @@ here
              /\ UNCHANGED <<nrecords, nerrors>>

\* lines 159-161
ScanEnd ==
    /\ Running
    /\ data_len < 60
    /\ go' = FALSE
    /\ pc' = "done"
    /\ last' = [kind |-> "end", at |-> position_marker, size |-> WZero]
    /\ UNCHANGED <<src, position_marker, nrecords, nerrors, flagvars, pathvars, indexvars>>

\* lines 172-173
GapBreak ==
    /\ Running
    /\ data_len >= 60
    /\ WLess(recordsize, W(60))
    /\ gap_size < 1
    /\ pc' = "done"
    /\ last' = [kind |-> "break", at |-> position_marker, size |-> recordsize]
    /\ UNCHANGED <<src, position_marker, go, nrecords, nerrors, flagvars, pathvars, indexvars>>

\* lines 174-176
GapRetry ==
    /\ Running
    /\ data_len >= 60
    /\ WLess(recordsize, W(60))
    /\ gap_size = read_length
    /\ position_marker' = WAdd(position_marker, W(8))
    /\ last' = [kind |-> "gap", at |-> position_marker, size |-> recordsize]
    /\ UNCHANGED <<src, go, pc, nrecords, nerrors, flagvars, pathvars, indexvars>>

\* lines 178-179, and then lines 187-198: no continue follows the += 8
GapFallThrough ==
    /\ Running
    /\ data_len >= 60
    /\ WLess(recordsize, W(60))
    /\ gap_size >= 1
    /\ gap_size # read_length
    /\ read_length - gap_size < 8
    /\ Frame(WAdd(position_marker, W(8)), recordsize)
    /\ UNCHANGED <<src, flagvars, pathvars, indexvars>>

\* lines 180-185
GapRealign ==
    /\ Running
    /\ data_len >= 60
    /\ WLess(recordsize, W(60))
    /\ gap_size >= 1
    /\ gap_size # read_length
    /\ read_length - gap_size >= 8
    /\ position_marker' = Mask(WAdd(position_marker, W(800 - gap_size)))
    /\ last' = [kind |-> "gap", at |-> position_marker, size |-> recordsize]
    /\ UNCHANGED <<src, go, pc, nrecords, nerrors, flagvars, pathvars, indexvars>>

\* lines 187-275 for a declared length of 60 or more.  recordsize is unpacked
\* unsigned (line 163), so the test recordsize < 0 of lines 165-166 never holds.
FrameRecord ==
    /\ Running
    /\ data_len >= 60
    /\ ~WLess(recordsize, W(60))
    /\ Frame(position_marker, recordsize)
    /\ UNCHANGED <<src, flagvars, pathvars, indexvars>>

\* The loop scans "<infile>.tmp", which create_temp_file writes from the first
\* non-zero byte of the input on: it is not empty and starts with a non-zero byte.
ScanInit ==
    /\ src \in Sources
    /\ ByteAt(src, WZero) # 0
    /\ position_marker = WZero
    /\ go = TRUE
    /\ pc = "loop"
    /\ last = [kind |-> "none", at |-> WZero, size |-> WZero]
    /\ nrecords = 0
    /\ nerrors = 0

ScanIdle ==
    /\ src = <<>>
    /\ position_marker = WZero
    /\ go = FALSE
    /\ pc = "done"
    /\ last = [kind |-> "none", at |-> WZero, size |-> WZero]
    /\ nrecords = 0
    /\ nerrors = 0

FlagIdle ==
    /\ flags = "FLAGS_SHORT"
    /\ r0 = [reason |-> WZero, sourceinfo |-> WZero, file_attrib |-> WZero]
    /\ r = r0
    /\ fpc = "idle"

PathIdle ==
    /\ mft_to_name = <<>>
    /\ mft_to_parent = <<>>
    /\ mft_to_path = <<>>
    /\ todo = {}
    /\ mftnum = 0
    /\ num = 0
    /\ path = ""
    /\ first_parent = TRUE
    /\ ppc = "idle"
    /\ lookup = [num |-> 0, found |-> FALSE, filename |-> ""]

IndexIdle ==
    /\ mftfile = <<>>
    /\ it = 0
    /\ data = <<>>
    /\ attrib_start = 0
    /\ attrib_type = 0
    /\ attr_name = ""
    /\ attr_parent = -1
    /\ seen = {}
    /\ ipc = "idle"

Init == ScanInit /\ FlagIdle /\ PathIdle /\ IndexIdle

Next ==
    \/ ScanEnd
    \/ GapBreak
    \/ GapRetry
    \/ GapFallThrough
    \/ GapRealign
    \/ FrameRecord

Spec == Init /\ [][Next]_vars

----------------------------------------------------------------------------
(* Claims about the scan loop *)

\* the current offset holds a framed range: 60 bytes or more are left and the
\* declared length is 60 or more
Framed == Running /\ data_len >= 60 /\ ~WLess(recordsize, W(60))

\* the current offset holds a zero-filled gap: a declared length below 60
GapCase == Running /\ data_len >= 60 /\ WLess(recordsize, W(60))

FrameKinds == {"record", "unrecognized", "struct_error", "fatal"}

\* C1: whatever decoding a framed range gives (a record, an unknown version, a
\* decode failure of any kind, also on a version-3 record), the scan goes on and
\* the next offset examined is offset + declared length.
C1_FramedRangeAdvances ==
    [][Framed => (/\ pc' = "loop"
                  /\ go'
                  /\ position_marker' = WAdd(position_marker, recordsize))]_vars

\* C2: where the scan meets 40 zero bytes followed by one valid 60-byte record
\* that ends the source (a lookahead window of 100 bytes), it decodes exactly
\* that one record and reports nothing for the gap.  The scanned file never
\* starts with a zero byte, so the 100 bytes follow one well-formed record:
\* two records in all, and no error.
C2_GapThenRecord ==
    (pc # "loop" /\ src = <<R808, Gap(40), R60>>) => (nrecords = 2 /\ nerrors = 0)

\* C3: a framed range whose declared length exceeds the bytes left is reported
\* as an error, never decoded into a record, and the scan resumes at
\* offset + declared length.
C3_TruncatedReported ==
    [][(Framed /\ WLess(Avail(src, position_marker), recordsize))
         => (/\ last'.kind = "struct_error"
             /\ pc' = "loop"
             /\ position_marker' = WAdd(position_marker, recordsize))]_vars

\* C4: every iteration that does not end the scan strictly increases the
\* current offset (so the loop terminates on every finite source).
C4_OffsetIncreases ==
    [][(Running /\ pc' = "loop" /\ go') => WLess(position_marker, position_marker')]_vars

\* the greatest multiple of 8 that is <= p
RoundDown8(p) == <<p[1], p[2] - (p[2] % 8)>>

\* the number of leading zero bytes of the window read at the current offset
leading_zeros == LeadingZeros(src, position_marker, data_len)

\* C12: a gap realignment (declared length below 60, the window neither all
\* zero nor starting with a non-zero byte) moves the offset to the greatest
\* multiple of 8 that is <= offset + leading zero bytes of the window, at every
\* offset, those at or above 2^32 included, and never moves it down.
C12_RealignRoundsDown ==
    [][(GapCase /\ leading_zeros > 0 /\ leading_zeros < data_len /\ last'.kind = "gap")
         => (/\ position_marker' = RoundDown8(WAdd(position_marker, W(leading_zeros)))
             /\ WLeq(position_marker, position_marker'))]_vars

\* C9: in an iteration that finds a declared length below 60 the scanner frames
\* no record and reports no decode error: it advances and retries, or stops.
C9_GapIsSilent ==
    [][GapCase => (/\ last'.kind \in {"gap", "break"}
                   /\ nrecords' = nrecords
                   /\ nerrors' = nerrors)]_vars

\* C10: a declared length with bit 31 set ends the scan at that offset: nothing
\* is framed or decoded for it and no further offset is examined.
C10_NegativeLengthStops ==
    [][(Running /\ data_len >= 60 /\ recordsize[1] >= 32768)
         => (pc' # "loop" /\ last'.kind \notin FrameKinds)]_vars

----------------------------------------------------------------------------
(* The label tables, in the order the source writes them: <<key, label>>   *)

FLAGS_LONG == <<
    <<<<0, 0>>, " ">>,
    <<<<0, 1>>, "The data in the file or directory is overwritten.">>,
    <<<<0, 2>>, "The file or directory was added to.">>,
    <<<<0, 4>>, "The file or directory was truncated.">>,
    <<<<0, 16>>, "Data in one or more named data streams for the file was overwritten.">>,
    <<<<0, 32>>, "One or more named data streams for the file were added to.">>,
    <<<<0, 64>>, "One or more named data streams for the file was truncated.">>,
    <<<<0, 256>>, "The file or directory was created for the first time.">>,
    <<<<0, 512>>, "The file or directory was deleted.">>,
    <<<<0, 1024>>, "The user made a change to the file's or directory's extended attributes.">>,
    <<<<0, 2048>>, "A change was made in the access rights to the file or directory.">>,
    <<<<0, 4096>>, "The file or directory was renamed and the file name in this structure is the previous name.">>,
    <<<<0, 8192>>, "The file or directory was renamed and the file name in this structure is the new name.">>,
    <<<<0, 16384>>, "A user toggled the FILE_ATTRIBUTE_NOT_CONTENT_INDEXED attribute.">>,
    <<<<0, 32768>>, "A user has either changed one or more file or directory attributes or one or more time stamps.">>,
    <<<<1, 0>>, "An NTFS hard link was added to or removed from the file or directory">>,
    <<<<2, 0>>, "The compression state of the file or directory was changed from or to compressed.">>,
    <<<<4, 0>>, "The file or directory was encrypted or decrypted.">>,
    <<<<8, 0>>, "The object identifier of the file or directory was changed.">>,
    <<<<16, 0>>, "The reparse point contained in the file or directory was changed, or a reparse point was added to or deleted from the file or directory.">>,
    <<<<32, 0>>, "A named stream has been added to or removed from the file or a named stream has been renamed.">>,
    <<<<32768, 0>>, "The file or directory was closed.">> >>

FLAGS_SHORT == <<
    <<<<0, 0>>, " ">>,
    <<<<0, 1>>, "data_overwritten">>,
    <<<<0, 2>>, "data_appended">>,
    <<<<0, 4>>, "data_truncated">>,
    <<<<0, 16>>, "ads_data_overwritten">>,
    <<<<0, 32>>, "ads_data_appended">>,
    <<<<0, 64>>, "ads_data_truncated">>,
    <<<<0, 256>>, "file_created">>,
    <<<<0, 512>>, "file_deleted">>,
    <<<<0, 1024>>, "extended_attrib_chnaged">>,
    <<<<0, 2048>>, "access_changed">>,
    <<<<0, 4096>>, "file_old_name">>,
    <<<<0, 8192>>, "file_new_name">>,
    <<<<0, 16384>>, "context_indexed_changed">>,
    <<<<0, 32768>>, "basic_info_changed">>,
    <<<<1, 0>>, "hardlink_changed">>,
    <<<<2, 0>>, "compression_changed">>,
    <<<<4, 0>>, "encryption_changed">>,
    <<<<8, 0>>, "objid_changed">>,
    <<<<16, 0>>, "reparse_changed">>,
    <<<<32, 0>>, "ads_added_or_deleted">>,
    <<<<32768, 0>>, "file_closed">> >>

FILE_ATTRIBUTES == <<
    <<<<0, 32>>, "ARCHIVE">>,
    <<<<0, 2048>>, "COMPRESSED">>,
    <<<<0, 64>>, "DEVICE">>,
    <<<<0, 16>>, "DIRECTORY">>,
    <<<<0, 16384>>, "ENCRYPTED">>,
    <<<<0, 2>>, "HIDDEN">>,
    <<<<0, 128>>, "NORMAL">>,
    <<<<0, 8192>>, "NOT_CONTENT_INDEXED">>,
    <<<<0, 4096>>, "OFFLINE">>,
    <<<<0, 1>>, "READONLY">>,
    <<<<0, 1024>>, "REPARSE_POINT">>,
    <<<<0, 512>>, "SPARSE_FILE">>,
    <<<<0, 4>>, "SYSTEM">>,
    <<<<0, 256>>, "TEMPORARY">>,
    <<<<1, 0>>, "VIRTUAL">> >>

SOURCEINFO == <<
    <<<<0, 4>>, "The operation is modifying a file to match the contents of the same file which exists in another member of the replica set.">>,
    <<<<0, 2>>, "The operation adds a private data stream to a file or directory.">>,
    <<<<0, 1>>, "The operation provides information about a cahnge to the file or directory made by the operating system.">>,
    <<<<0, 0>>, "">> >>

----------------------------------------------------------------------------
(* deflag_item and deflag_long_field *)

Keys(t) == {t[i][1] : i \in 1..Len(t)}

\* flags[k], for a key k of the table
Label(t, k) == t[CHOOSE i \in 1..Len(t) : t[i][1] = k][2]

\* the keys of t in the order the source lists them
ListedKeys(t) == [i \in 1..Len(t) |-> t[i][1]]

RECURSIVE Sorted(_)
Sorted(S) ==
    IF S = {} THEN <<>>
    ELSE LET m == CHOOSE x \in S : \A y \in S : WLeq(x, y)
         IN <<m>> \o Sorted(S \ {m})

\* a deflag_long_field that walks the keys as listed, not sorted
keylist_unsorted(t) == ListedKeys(t)

\* keylist = sorted(flags.keys())
keylist(t) == Sorted(Keys(t))

\* "; ".join(l)
RECURSIVE Join(_)
Join(l) ==
    IF Len(l) = 0 THEN ""
    ELSE IF Len(l) = 1 THEN l[1]
    ELSE l[1] \o "; " \o Join(Tail(l))

\* the labels of the keys i of the list with i & value > 0, in list order
RECURSIVE SetFlags(_, _, _)
SetFlags(t, l, value) ==
    IF Len(l) = 0 THEN <<>>
    ELSE (IF WAnd(l[1], value) # WZero THEN <<Label(t, l[1])>> ELSE <<>>)
         \o SetFlags(t, Tail(l), value)

deflag_long_field(value, t) == Join(SetFlags(t, keylist(t), value))

\* struct.unpack("i", ..): the 4-byte image u read as a signed integer
S32(u) == IF u[1] >= 32768 THEN <<u[1] - WBase, u[2]>> ELSE u

\* a deflag_item without the exact lookup
Deflag_NoExact(value, t) == [via |-> "multi", text |-> deflag_long_field(value, t)]

\* try: flags[value]  except KeyError: deflag_long_field(value, flags)
Deflag(value, t) ==
    IF value \in Keys(t)
    THEN [via |-> "exact", text |-> Label(t, value)]
    ELSE [via |-> "multi", text |-> deflag_long_field(value, t)]

FlagTable == IF flags = "FLAGS_LONG" THEN FLAGS_LONG ELSE FLAGS_SHORT

\* lines 496-499 (the three fields unpacked as signed) and lines 452-464
DeflagItem ==
    /\ fpc = "raw"
    /\ r' = [reason |-> Deflag(S32(r0.reason), FlagTable),
             sourceinfo |-> Deflag(S32(r0.sourceinfo), SOURCEINFO),
             file_attrib |-> Deflag(S32(r0.file_attrib), FILE_ATTRIBUTES)]
    /\ fpc' = "deflagged"
    /\ UNCHANGED <<flags, r0, scanvars, pathvars, indexvars>>

\* the bitmasks a field is given: every known flag, every two of them or-ed,
\* and one bit no table knows
Masks(t) == {WOr(a, b) : a, b \in Keys(t)} \cup {W(8)}

NoFlags == [reason |-> WZero, sourceinfo |-> WZero, file_attrib |-> WZero]

FlagInit ==
    /\ flags \in {"FLAGS_SHORT", "FLAGS_LONG"}
    /\ r0 \in {[NoFlags EXCEPT !.reason = v] : v \in Masks(FLAGS_SHORT)}
           \cup {[NoFlags EXCEPT !.sourceinfo = v] : v \in Masks(SOURCEINFO)}
           \cup {[NoFlags EXCEPT !.file_attrib = v] : v \in Masks(FILE_ATTRIBUTES)}
    /\ r = r0
    /\ fpc = "raw"

FlagSpecInit == FlagInit /\ ScanIdle /\ PathIdle /\ IndexIdle

FlagNext == DeflagItem

FlagSpec == FlagSpecInit /\ [][FlagNext]_vars

\* C7 as claimed: in each of the three tables bitmask 0 has an exact-match
\* label, so decoding 0 never takes the multi-bit path.
C7_ZeroIsExact ==
    fpc = "deflagged" =>
        \A f \in {"reason", "sourceinfo", "file_attrib"} :
            r0[f] = WZero => r[f].via = "exact"

\* C7 as amended: the reason and source tables give bitmask 0 their exact
\* label 0 (" " and ""); the attribute table has no key 0, and bitmask 0 goes
\* through the multi-bit path to the empty join.
C7_ZeroLabels ==
    fpc = "deflagged" =>
        /\ r0.reason = WZero => r.reason = [via |-> "exact", text |-> " "]
        /\ r0.sourceinfo = WZero => r.sourceinfo = [via |-> "exact", text |-> ""]
        /\ r0.file_attrib = WZero => r.file_attrib = [via |-> "multi", text |-> ""]

C7_Witness ==
    fpc = "deflagged" /\ r0 = NoFlags /\ r.file_attrib.via = "multi"

NonZeroKeys(t) == Keys(t) \ {WZero}

FieldTable(f) ==
    CASE f = "reason" -> FlagTable
      [] f = "sourceinfo" -> SOURCEINFO
      [] f = "file_attrib" -> FILE_ATTRIBUTES

\* C8: for every table and every two distinct non-zero keys a < b of it, the
\* bitmask a | b, read as a signed 32 bit integer, decodes to the label of a,
\* then "; ", then the label of b.
C8_TwoFlags ==
    fpc = "deflagged" =>
        \A f \in {"reason", "sourceinfo", "file_attrib"} :
            \A a, b \in NonZeroKeys(FieldTable(f)) :
                (WLess(a, b) /\ r0[f] = WOr(a, b))
                    => r[f].text = Label(FieldTable(f), a) \o "; " \o Label(FieldTable(f), b)

\* the reason field held 0x80000000 | 0x100 and was decoded
C8_Witness ==
    /\ fpc = "deflagged"
    /\ r0.reason = <<32768, 256>>
    /\ r.reason.text = "file_created; file_closed"

----------------------------------------------------------------------------
(* parse_mft, lines 400-436: the paths of the index; main(), lines 204-208 *)

ROOT == 5

FileNums == ROOT..MaxFileNum

\* the parent numbers an index record may carry: any file number, one number
\* no record has, and -1 (no file name attribute)
ParentVals == FileNums \cup {MaxFileNum + 1, -1}

NameOf(n) == "f" \o ToString(n)

\* line 427 the wrong way round
Prepend_Reversed(name, p) == p \o "\\" \o name

\* line 427: mft_to_name[num] + "\\" + path (and lines 413, 417, 421, 429)
Prepend(name, p) == name \o "\\" \o p

\* a cache that kept the name of a record, not its path
CachedPath_NameOnly(n) == mft_to_name[n]

\* line 420: mft_to_path[num], the path stored for a record resolved earlier
CachedPath(n) == mft_to_path[n]

\* lines 432-435
Store(p) ==
    mft_to_path' = [n \in DOMAIN mft_to_path \cup {mftnum'} |->
                        IF n = mftnum' THEN (IF mftnum' = ROOT THEN "." ELSE p)
                        ELSE mft_to_path[n]]

\* lines 401-408: the next key of mft_to_parent (a dict: in any order)
ResolveStart ==
    /\ ppc = "next"
    /\ \E m \in todo :
        /\ todo' = todo \ {m}
        /\ mftnum' = m
        /\ num' = m
        /\ first_parent' = TRUE
        /\ path' = mft_to_name[m]
        /\ IF m # ROOT /\ m # -1
           THEN ppc' = "walk" /\ UNCHANGED mft_to_path
           ELSE ppc' = "next" /\ Store(mft_to_name[m])
    /\ UNCHANGED <<mft_to_name, mft_to_parent, lookup, scanvars, flagvars, indexvars>>

\* lines 408-430: one turn of the while loop, and lines 432-435 when it breaks
WalkStep ==
    /\ ppc = "walk"
    /\ Len(path) <= MaxPathLen
    /\ LET parent == mft_to_parent[num] IN
       /\ UNCHANGED mftnum
       /\ CASE parent = ROOT ->
                 /\ path' = Prepend(".", path)
                 /\ num' = parent
                 /\ UNCHANGED first_parent
                 /\ ppc' = "next" /\ Store(path')
            [] parent = -1 ->
                 /\ path' = Prepend("NoParent", path)
                 /\ num' = parent
                 /\ UNCHANGED first_parent
                 /\ ppc' = "next" /\ Store(path')
            [] parent \notin {ROOT, -1} /\ parent \in DOMAIN mft_to_path /\ first_parent ->
                 /\ path' = Prepend(CachedPath(parent), path)
                 /\ num' = parent
                 /\ UNCHANGED first_parent
                 /\ ppc' = "next" /\ Store(path')
            [] OTHER ->
                 /\ first_parent' = FALSE
                 /\ num' = parent
                 /\ IF parent \in DOMAIN mft_to_name
                    THEN /\ path' = Prepend(mft_to_name[parent], path)
                         /\ ppc' = "walk" /\ UNCHANGED mft_to_path
                    ELSE /\ path' = Prepend("[ORPHAN]", path)
                         /\ ppc' = "next" /\ Store(path')
    /\ UNCHANGED <<mft_to_name, mft_to_parent, todo, lookup, scanvars, flagvars, indexvars>>

\* main(), lines 204-208, once parse_mft has returned: the directory of a
\* record whose parent_ref is n, and the file name printed for it
Lookup ==
    /\ ppc = "next"
    /\ todo = {}
    /\ \E n \in ParentVals :
        lookup' = [num |-> n,
                   found |-> n \in DOMAIN mft_to_path,
                   filename |-> IF n \in DOMAIN mft_to_path
                                THEN mft_to_path[n] \o "\\" \o "a.txt"
                                ELSE "[ORPHAN]\\" \o "a.txt"]
    /\ UNCHANGED <<mft_to_name, mft_to_parent, mft_to_path, todo, mftnum, num, path,
                   first_parent, ppc, scanvars, flagvars, indexvars>>

\* the index parse_mft's first loop leaves: any records, each with any parent
PathInit ==
    /\ \E keys \in SUBSET FileNums :
        /\ mft_to_parent \in [keys -> ParentVals]
        /\ mft_to_name = [n \in keys |-> NameOf(n)]
        /\ todo = keys
    /\ mft_to_path = <<>>
    /\ mftnum = 0
    /\ num = 0
    /\ path = ""
    /\ first_parent = TRUE
    /\ ppc = "next"
    /\ lookup = [num |-> 0, found |-> FALSE, filename |-> ""]

PathNext == ResolveStart \/ WalkStep \/ Lookup

PathSpecInit == PathInit /\ ScanIdle /\ FlagIdle /\ IndexIdle

PathSpec == PathSpecInit /\ [][PathNext]_vars

----------------------------------------------------------------------------
(* Claims about the paths *)

\* C5: resolving file number 5 gives ".", whatever the index holds and whether
\* or not it holds a record numbered 5.
C5_RootResolves ==
    lookup.num = ROOT => (lookup.found /\ lookup.filename = ".\\a.txt")

IndexKeys == DOMAIN mft_to_parent

\* following parent numbers from a, b is met within fuel records
RECURSIVE Reaches(_, _, _)
Reaches(a, b, fuel) ==
    \/ a = b
    \/ /\ fuel > 0
       /\ a \in IndexKeys
       /\ Reaches(mft_to_parent[a], b, fuel - 1)

NoParentCycle ==
    \A n \in IndexKeys : ~Reaches(mft_to_parent[n], n, Cardinality(IndexKeys))

\* the parent chain of record n runs into a number without a record before it
\* meets 5 or -1
RECURSIVE ChainOrphan(_, _)
ChainOrphan(n, fuel) ==
    LET parent == mft_to_parent[n] IN
    /\ parent \notin {ROOT, -1}
    /\ \/ parent \notin IndexKeys
       \/ fuel > 0 /\ ChainOrphan(parent, fuel - 1)

\* "[ORPHAN]\", the names of the parents from the one whose parent has no
\* record down to the parent of n, then the name of n
RECURSIVE OrphanPath(_, _)
OrphanPath(n, fuel) ==
    IF mft_to_parent[n] \notin IndexKeys \/ fuel = 0
    THEN "[ORPHAN]\\" \o mft_to_name[n]
    ELSE OrphanPath(mft_to_parent[n], fuel - 1) \o "\\" \o mft_to_name[n]

\* C6: in an index without a parent cycle, for a record whose parent chain
\* never meets 5 or -1, the walk ends (while it runs, the path is shorter than
\* the path it will store, and every turn lengthens it) and the path stored is
\* "[ORPHAN]\", then the names of the parents below the first missing one from
\* the top down, then the record's own name.
C6_OrphanPath ==
    NoParentCycle =>
        /\ \A n \in DOMAIN mft_to_path :
               (n # ROOT /\ ChainOrphan(n, Cardinality(IndexKeys)))
                   => mft_to_path[n] = OrphanPath(n, Cardinality(IndexKeys))
        /\ (ppc = "walk" /\ ChainOrphan(mftnum, Cardinality(IndexKeys)))
               => Len(path) < Len(OrphanPath(mftnum, Cardinality(IndexKeys)))

\* record 6 lies under record 7, whose parent 8 has no record; both are resolved
C6_Witness ==
    /\ NoParentCycle
    /\ (6 :> 7 @@ 7 :> 8) = mft_to_parent
    /\ DOMAIN mft_to_path = {6, 7}
    /\ mft_to_path[6] = "[ORPHAN]\\f7\\f6"

\* lines 408-430 without lines 418-421: the walk that never consults
\* mft_to_path
RECURSIVE PlainWalk(_, _, _)
PlainWalk(n, p, fuel) ==
    IF n = ROOT \/ n = -1 THEN p
    ELSE LET parent == mft_to_parent[n] IN
         CASE parent = ROOT -> ".\\" \o p
           [] parent = -1 -> "NoParent\\" \o p
           [] parent \notin {ROOT, -1} /\ parent \notin DOMAIN mft_to_name -> "[ORPHAN]\\" \o p
           [] OTHER -> IF fuel = 0 THEN p
                       ELSE PlainWalk(parent, mft_to_name[parent] \o "\\" \o p, fuel - 1)

\* lines 401-407 and 432-435 around that walk
PlainPath(n) ==
    IF n = ROOT THEN "." ELSE PlainWalk(n, mft_to_name[n], Cardinality(IndexKeys))

\* C13: in an index without a parent cycle the path stored for a file number
\* is the path the walk gives when it never consults the cache; that path is
\* a function of the index alone, so the order in which the file numbers are
\* resolved does not change it, and in every order every file number of the
\* index gets its path.
C13_CacheTransparent ==
    NoParentCycle =>
        /\ \A n \in DOMAIN mft_to_path : mft_to_path[n] = PlainPath(n)
        /\ (ppc = "next" /\ todo = {}) => DOMAIN mft_to_path = IndexKeys

\* record 6 lies under record 7, which lies under the root; 7 was resolved
\* first and the walk of 6 stopped at its first hop, on the cached path of 7
C13_Witness ==
    /\ NoParentCycle
    /\ (6 :> 7 @@ 7 :> ROOT) = mft_to_parent
    /\ ppc = "next"
    /\ mftnum = 6
    /\ num = 7
    /\ first_parent
    /\ DOMAIN mft_to_path = {6, 7}
    /\ mft_to_path[6] = ".\\f7\\f6"

----------------------------------------------------------------------------
(* parse_mft, lines 358-399: the index built from the 1024-byte records *)

\* it.read(1024) of a record that is wholly in the file
RecLen == 1024

\* byte j of the little-endian two's complement image of v
LEByte(v, j) == (v \div (256 ^ j)) % 256

\* An attribute sub-record laid at offset "at" of its index record: the type
\* in bytes 0..3, the total length in bytes 4..5 and, in a file name attribute
\* (type 48), the length of the stream name in byte 9, the parent in bytes
\* 24..27, the name length in byte 88 and the UTF-16 name from byte 90 on.
Attr(at, type, len) == [at |-> at, type |-> type, len |-> len, parent |-> 0, nm |-> <<>>]

FnAttr(at, len, parent, nm) ==
    [at |-> at, type |-> 48, len |-> len, parent |-> parent, nm |-> nm]

AttrExtent(a) == IF a.type = 48 THEN 90 + 2 * Len(a.nm) ELSE 6

AttrByte(a, j) ==
    CASE j \in 0..3 -> LEByte(a.type, j)
      [] j \in 4..5 -> LEByte(a.len, j - 4)
      [] a.type = 48 /\ j \in 24..27 -> LEByte(a.parent, j - 24)
      [] a.type = 48 /\ j = 88 -> Len(a.nm)
      [] a.type = 48 /\ j >= 90 /\ (j - 90) % 2 = 0 -> a.nm[((j - 90) \div 2) + 1]
      [] OTHER -> 0

\* an index record: its signature, file number, first attribute offset and
\* attributes; every byte not named here is 0
MftRec(sig, n, first, attrs) == [sig |-> sig, mftnum |-> n, first |-> first, attrs |-> attrs]

\* "FILE0"
Signature == <<70, 73, 76, 69, 48>>

\* data[k] for 0 <= k < 1024
RecByte(d, k) ==
    CASE k \in 0..4 -> IF d.sig THEN Signature[k + 1] ELSE 0
      [] k \in 20..21 -> LEByte(d.first, k - 20)
      [] k \in 44..47 -> LEByte(d.mftnum, k - 44)
      [] \E i \in 1..Len(d.attrs) :
            k \in d.attrs[i].at..(d.attrs[i].at + AttrExtent(d.attrs[i]) - 1) ->
            LET i == CHOOSE i \in 1..Len(d.attrs) :
                        k \in d.attrs[i].at..(d.attrs[i].at + AttrExtent(d.attrs[i]) - 1)
            IN AttrByte(d.attrs[i], k - d.attrs[i].at)
      [] OTHER -> 0

\* the index Python reads for data[i]: -1 when it raises IndexError
PyIndex(i) == IF i >= RecLen \/ i < 0 - RecLen THEN -1 ELSE IF i < 0 THEN i + RecLen ELSE i

\* where the slice data[a:...] starts
PySliceStart(a) == IF a < 0 THEN (IF a + RecLen < 0 THEN 0 ELSE a + RecLen) ELSE a

\* struct.unpack("i", data[a:a + 4]): struct.error unless the slice has 4 bytes
UnpackI(d, a) ==
    IF PySliceLen(RecLen, a, a + 4) # 4
    THEN [ok |-> FALSE, v |-> 0]
    ELSE LET s == PySliceStart(a)
             top == RecByte(d, s + 3)
         IN [ok |-> TRUE,
             v |-> RecByte(d, s) + 256 * RecByte(d, s + 1) + 65536 * RecByte(d, s + 2)
                   + 16777216 * (IF top >= 128 THEN top - 256 ELSE top)]

\* struct.unpack("h", data[a:a + 2])
UnpackH(d, a) ==
    IF PySliceLen(RecLen, a, a + 2) # 2
    THEN [ok |-> FALSE, v |-> 0]
    ELSE LET s == PySliceStart(a)
             top == RecByte(d, s + 1)
         IN [ok |-> TRUE, v |-> RecByte(d, s) + 256 * (IF top >= 128 THEN top - 256 ELSE top)]

\* the characters '\x20' .. '\x5f'
Printable == <<
    " ", "!", "\"", "#", "$", "%", "&", "'", "(", ")", "*", "+",
    ",", "-", ".", "/", "0", "1", "2", "3", "4", "5", "6", "7",
    "8", "9", ":", ";", "<", "=", ">", "?", "@", "A", "B", "C",
    "D", "E", "F", "G", "H", "I", "J", "K", "L", "M", "N", "O",
    "P", "Q", "R", "S", "T", "U", "V", "W", "X", "Y", "Z", "[",
    "\\", "]", "^", "_">>

\* the characters 'a' .. '~'
PrintableLow == <<
    "a", "b", "c", "d", "e", "f", "g", "h", "i", "j", "k", "l",
    "m", "n", "o", "p", "q", "r", "s", "t", "u", "v", "w", "x",
    "y", "z", "{", "|", "}", "~">>

HexDigits == <<"0", "1", "2", "3", "4", "5", "6", "7", "8", "9", "a", "b", "c", "d", "e", "f">>

\* lines 386-390: what one byte of the name adds to it (the two printable
\* characters no string of this module can hold, '\x60' and '\x7f', are in
\* no record of MftRecords)
NameChar(b) ==
    IF b = 0 THEN ""
    ELSE IF b > 31 /\ b < 128
         THEN CASE b < 96 -> Printable[b - 31]
                [] b > 96 /\ b < 127 -> PrintableLow[b - 96]
    ELSE "0x" \o HexDigits[(b \div 16) + 1] \o HexDigits[(b % 16) + 1]

\* lines 385-390: the for loop over range(i, stop); ok is FALSE when data[i]
\* raises IndexError
RECURSIVE unicodeHack(_, _, _, _)
unicodeHack(d, i, stop, acc) ==
    IF i >= stop THEN [ok |-> TRUE, v |-> acc]
    ELSE IF PyIndex(i) = -1 THEN [ok |-> FALSE, v |-> acc]
    ELSE unicodeHack(d, i + 1, stop, acc \o NameChar(RecByte(d, PyIndex(i))))

\* lines 375-390: the body of "if attrib_type == 48" at attribute offset a
FileNameAttr(d, a) ==
    IF PyIndex(a + 9) = -1 THEN [ok |-> FALSE, parent |-> 0, name |-> ""]
    ELSE
    LET stream_length == 2 * RecByte(d, PyIndex(a + 9))
        parent_start == a + 24 + stream_length
        p == UnpackI(d, parent_start)
        name_length_start == parent_start + 64
    IN IF ~p.ok \/ PyIndex(name_length_start) = -1
       THEN [ok |-> FALSE, parent |-> 0, name |-> ""]
       ELSE LET b == RecByte(d, PyIndex(name_length_start))
                name_length == IF b >= 128 THEN b - 256 ELSE b
                name_start == name_length_start + 2
                nm == unicodeHack(d, name_start, name_start + name_length * 2, "")
            IN [ok |-> nm.ok, parent |-> p.v, name |-> nm.v]

\* lines 373-394: one turn of "while attrib_type != -1"
Turn(d, a, type, name0, parent0) ==
    LET fn == IF type = 48 THEN FileNameAttr(d, a)
              ELSE [ok |-> TRUE, parent |-> parent0, name |-> name0]
        attrib_length == UnpackH(d, a + 4)
        next_type == UnpackI(d, a + attrib_length.v)
    IN [ok |-> fn.ok /\ attrib_length.ok /\ next_type.ok,
        attrib_start |-> a + attrib_length.v,
        attrib_type |-> next_type.v,
        name |-> fn.name,
        parent |-> fn.parent]

\* lines 398-399
StoreEntry(n, nm, par) ==
    /\ mft_to_name' = [k \in DOMAIN mft_to_name \cup {n} |->
                          IF k = n THEN nm ELSE mft_to_name[k]]
    /\ mft_to_parent' = [k \in DOMAIN mft_to_parent \cup {n} |->
                          IF k = n THEN par ELSE mft_to_parent[k]]

\* lines 360-362: read() returns nothing, the loop is left
ReadEnd ==
    /\ ipc = "read"
    /\ it = Len(mftfile)
    /\ ipc' = "done"
    /\ UNCHANGED <<mftfile, it, data, attrib_start, attrib_type, attr_name, attr_parent,
                   seen, scanvars, flagvars, pathvars>>

\* lines 363-364: no "FILE0", the record is passed over
ReadSkip ==
    /\ ipc = "read"
    /\ it < Len(mftfile)
    /\ ~mftfile[it + 1].sig
    /\ it' = it + 1
    /\ data' = mftfile[it + 1]
    /\ UNCHANGED <<mftfile, attrib_start, attrib_type, attr_name, attr_parent, seen, ipc,
                   scanvars, flagvars, pathvars>>

\* lines 365-371, and lines 398-399 when the first type read is the sentinel
ReadRecord ==
    /\ ipc = "read"
    /\ it < Len(mftfile)
    /\ mftfile[it + 1].sig
    /\ it' = it + 1
    /\ data' = mftfile[it + 1]
    /\ LET n == UnpackI(data', 44)
           first == UnpackH(data', 20)
           type == UnpackI(data', first.v)
       IN /\ mftnum' = n.v
          /\ attrib_start' = first.v
          /\ attrib_type' = type.v
          /\ attr_name' = ""
          /\ attr_parent' = -1
          /\ seen' = {first.v}
          /\ IF ~type.ok
             THEN ipc' = "raised" /\ UNCHANGED <<mft_to_name, mft_to_parent>>
             ELSE IF type.v # -1
             THEN ipc' = "walk" /\ UNCHANGED <<mft_to_name, mft_to_parent>>
             ELSE ipc' = "read" /\ StoreEntry(n.v, "", -1)
    /\ UNCHANGED <<mftfile, mft_to_path, todo, num, path, first_parent, ppc, lookup,
                   scanvars, flagvars>>

\* lines 373-394: one turn of the attribute loop, and lines 398-399 when it
\* reads the sentinel.  No handler encloses the loop or the call in main()
\* (line 118): an exception leaves the program.  What a turn does depends on
\* data and attrib_start alone, so once attrib_start takes a value it has had
\* in this record the loop never ends ("hang").
AttrStep ==
    /\ ipc = "walk"
    /\ LET t == Turn(data, attrib_start, attrib_type, attr_name, attr_parent) IN
       IF ~t.ok
       THEN /\ ipc' = "raised"
            /\ UNCHANGED <<attrib_start, attrib_type, attr_name, attr_parent, seen,
                           mft_to_name, mft_to_parent>>
       ELSE /\ attrib_start' = t.attrib_start
            /\ attrib_type' = t.attrib_type
            /\ attr_name' = t.name
            /\ attr_parent' = t.parent
            /\ seen' = seen \cup {t.attrib_start}
            /\ IF t.attrib_type = -1
               THEN ipc' = "read" /\ StoreEntry(mftnum, t.name, t.parent)
               ELSE /\ ipc' = IF t.attrib_start \in seen THEN "hang" ELSE "walk"
                    /\ UNCHANGED <<mft_to_name, mft_to_parent>>
    /\ UNCHANGED <<mftfile, it, data, mftnum, mft_to_path, todo, num, path, first_parent,
                   ppc, lookup, scanvars, flagvars>>

\* the UTF-16 bytes of "f5", "f6", ...
NameBytes(n) == <<102, 48 + n>>

\* a record as the file system writes it: standard information, file name,
\* sentinel
Good(n, p) == MftRec(TRUE, n, 56, <<Attr(56, 16, 24), FnAttr(80, 96, p, NameBytes(n)),
                                    Attr(176, -1, 0)>>)
\* a record without a file name attribute
NoName(n) == MftRec(TRUE, n, 56, <<Attr(56, 16, 24), Attr(80, -1, 0)>>)
\* a record without the signature
BadSig == MftRec(FALSE, 6, 56, <<Attr(56, 16, 24), Attr(80, -1, 0)>>)
\* an attribute of total length 0
ZeroLen(n) == MftRec(TRUE, n, 56, <<Attr(56, 16, 0)>>)
\* an attribute of negative length that leads back to the one before it
NegLen(n) == MftRec(TRUE, n, 56, <<Attr(56, 16, 24), Attr(80, 128, -24)>>)
\* an attribute of negative length that leads before the record's start
NegWrap(n) == MftRec(TRUE, n, 56, <<Attr(56, 128, -58)>>)
\* a last attribute that ends at the record's end, no sentinel
PastEnd(n) == MftRec(TRUE, n, 56, <<Attr(56, 16, 968)>>)
\* a file name attribute cut by the record's end, no sentinel
NameCut(n) == MftRec(TRUE, n, 56, <<Attr(56, 16, 880), FnAttr(936, 96, ROOT, NameBytes(n))>>)

MftRecords == {Good(ROOT, ROOT), Good(6, ROOT), NoName(7), BadSig,
               ZeroLen(6), NegLen(6), NegWrap(6), PastEnd(6), NameCut(6)}

MftFiles == UNION {[1..n -> MftRecords] : n \in 1..MaxRecs}

IndexInit ==
    /\ mftfile \in MftFiles
    /\ it = 0
    /\ data = <<>>
    /\ attrib_start = 0
    /\ attrib_type = 0
    /\ attr_name = ""
    /\ attr_parent = -1
    /\ seen = {}
    /\ ipc = "read"

IndexSpecInit == IndexInit /\ ScanIdle /\ FlagIdle /\ PathIdle

IndexNext == ReadEnd \/ ReadSkip \/ ReadRecord \/ AttrStep

IndexSpec == IndexSpecInit /\ [][IndexNext]_vars

----------------------------------------------------------------------------
(* Claims about the index builder *)

\* a record with the signature and no sentinel among its attributes
Unterminated(d) == d.sig /\ \A i \in 1..Len(d.attrs) : d.attrs[i].type # -1

\* C11: an index record with a valid signature whose attribute chain never
\* reaches the sentinel does not stop the building of the index: the walk of
\* that record neither leaves the program with an exception nor runs for ever,
\* and when the file has been read every well-formed record of it, those after
\* the bad one included, is in the index.
C11_UnterminatedSkipped ==
    /\ (it > 0 /\ Unterminated(data)) => ipc \notin {"raised", "hang"}
    /\ ipc = "done" =>
          \A i \in 1..Len(mftfile) :
              (mftfile[i].sig /\ ~Unterminated(mftfile[i])) =>
                  mftfile[i].mftnum \in DOMAIN mft_to_parent

====
